---------------------------- MODULE Spec2Model ----------------------------
(***************************************************************************)
(* Model of the `input` crate: the Key enumeration and its conversions to  *)
(* and from numeric codes (src/src/keyboard.rs), the comparison and hash   *)
(* implementations of Key, and the element value of keyboard and mouse     *)
(* events (src/src/keyboard.rs, src/src/mouse.rs).                         *)
(*                                                                         *)
(* The crate is a library of pure functions over value types.  Each        *)
(* specification below draws the receiver and the arguments of a call in   *)
(* its initial states, and each action is one call: it stores the name of  *)
(* the function in `op` and the returned value in `ret`.                   *)
(*                                                                         *)
(*   Spec       conversions between codes and keys  (variables n, self)    *)
(*   SpecPair   comparisons of two keys             (variables self, other)*)
(*   SpecEvent  accessors of events                 (variable ev)          *)
(*                                                                         *)
(* Representation of the machine integers.  A 64-bit value (u64, i64) is   *)
(* the tuple of its four 16-bit limbs, least significant first; an i64 is  *)
(* the two's complement bit pattern.  An i32 is an integer of              *)
(* -2^31 .. 2^31-1.  A float is the number it denotes; only floats with    *)
(* an integer value are drawn, which f64 holds exactly.                    *)
(***************************************************************************)
EXTENDS Integers, Sequences, FiniteSets

VARIABLES
  n,      \* the numeric code handed to from_u64 / from_i64 (64-bit limbs)
  self,   \* the Key that is the receiver of a call
  other,  \* the Key that is the argument of eq / partial_cmp / cmp
  ev,     \* the event that is the receiver of an Event call
  op,     \* the name of the last call, "init" before any call
  ret     \* what the last call returned

vars == <<n, self, other, ev, op, ret>>

---------------------------------------------------------------------------
(* Option<T> *)

None == <<"None">>

Some(x) == <<"Some", x>>

Unwrap(o) == o[2]

---------------------------------------------------------------------------
(* pub enum Key: every variant with its explicit discriminant.             *)

KeyDiscriminant ==
  [ Unknown              |-> 0,
    Backspace            |-> 8,
    Tab                  |-> 9,
    Return               |-> 13,
    Escape               |-> 27,
    Space                |-> 32,
    Exclaim              |-> 33,
    Quotedbl             |-> 34,
    Hash                 |-> 35,
    Dollar               |-> 36,
    Percent              |-> 37,
    Ampersand            |-> 38,
    Quote                |-> 39,
    LeftParen            |-> 40,
    RightParen           |-> 41,
    Asterisk             |-> 42,
    Plus                 |-> 43,
    Comma                |-> 44,
    Minus                |-> 45,
    Period               |-> 46,
    Slash                |-> 47,
    D0                   |-> 48,
    D1                   |-> 49,
    D2                   |-> 50,
    D3                   |-> 51,
    D4                   |-> 52,
    D5                   |-> 53,
    D6                   |-> 54,
    D7                   |-> 55,
    D8                   |-> 56,
    D9                   |-> 57,
    Colon                |-> 58,
    Semicolon            |-> 59,
    Less                 |-> 60,
    Equals               |-> 61,
    Greater              |-> 62,
    Question             |-> 63,
    At                   |-> 64,
    LeftBracket          |-> 91,
    Backslash            |-> 92,
    RightBracket         |-> 93,
    Caret                |-> 94,
    Underscore           |-> 95,
    Backquote            |-> 96,
    A                    |-> 97,
    B                    |-> 98,
    C                    |-> 99,
    D                    |-> 100,
    E                    |-> 101,
    F                    |-> 102,
    G                    |-> 103,
    H                    |-> 104,
    I                    |-> 105,
    J                    |-> 106,
    K                    |-> 107,
    L                    |-> 108,
    M                    |-> 109,
    N                    |-> 110,
    O                    |-> 111,
    P                    |-> 112,
    Q                    |-> 113,
    R                    |-> 114,
    S                    |-> 115,
    T                    |-> 116,
    U                    |-> 117,
    V                    |-> 118,
    W                    |-> 119,
    X                    |-> 120,
    Y                    |-> 121,
    Z                    |-> 122,
    Delete               |-> 127,
    CapsLock             |-> 1073741881,
    F1                   |-> 1073741882,
    F2                   |-> 1073741883,
    F3                   |-> 1073741884,
    F4                   |-> 1073741885,
    F5                   |-> 1073741886,
    F6                   |-> 1073741887,
    F7                   |-> 1073741888,
    F8                   |-> 1073741889,
    F9                   |-> 1073741890,
    F10                  |-> 1073741891,
    F11                  |-> 1073741892,
    F12                  |-> 1073741893,
    PrintScreen          |-> 1073741894,
    ScrollLock           |-> 1073741895,
    Pause                |-> 1073741896,
    Insert               |-> 1073741897,
    Home                 |-> 1073741898,
    PageUp               |-> 1073741899,
    End                  |-> 1073741901,
    PageDown             |-> 1073741902,
    Right                |-> 1073741903,
    Left                 |-> 1073741904,
    Down                 |-> 1073741905,
    Up                   |-> 1073741906,
    NumLockClear         |-> 1073741907,
    NumPadDivide         |-> 1073741908,
    NumPadMultiply       |-> 1073741909,
    NumPadMinus          |-> 1073741910,
    NumPadPlus           |-> 1073741911,
    NumPadEnter          |-> 1073741912,
    NumPad1              |-> 1073741913,
    NumPad2              |-> 1073741914,
    NumPad3              |-> 1073741915,
    NumPad4              |-> 1073741916,
    NumPad5              |-> 1073741917,
    NumPad6              |-> 1073741918,
    NumPad7              |-> 1073741919,
    NumPad8              |-> 1073741920,
    NumPad9              |-> 1073741921,
    NumPad0              |-> 1073741922,
    NumPadPeriod         |-> 1073741923,
    Application          |-> 1073741925,
    Power                |-> 1073741926,
    NumPadEquals         |-> 1073741927,
    F13                  |-> 1073741928,
    F14                  |-> 1073741929,
    F15                  |-> 1073741930,
    F16                  |-> 1073741931,
    F17                  |-> 1073741932,
    F18                  |-> 1073741933,
    F19                  |-> 1073741934,
    F20                  |-> 1073741935,
    F21                  |-> 1073741936,
    F22                  |-> 1073741937,
    F23                  |-> 1073741938,
    F24                  |-> 1073741939,
    Execute              |-> 1073741940,
    Help                 |-> 1073741941,
    Menu                 |-> 1073741942,
    Select               |-> 1073741943,
    Stop                 |-> 1073741944,
    Again                |-> 1073741945,
    Undo                 |-> 1073741946,
    Cut                  |-> 1073741947,
    Copy                 |-> 1073741948,
    Paste                |-> 1073741949,
    Find                 |-> 1073741950,
    Mute                 |-> 1073741951,
    VolumeUp             |-> 1073741952,
    VolumeDown           |-> 1073741953,
    NumPadComma          |-> 1073741957,
    NumPadEqualsAS400    |-> 1073741958,
    AltErase             |-> 1073741977,
    Sysreq               |-> 1073741978,
    Cancel               |-> 1073741979,
    Clear                |-> 1073741980,
    Prior                |-> 1073741981,
    Return2              |-> 1073741982,
    Separator            |-> 1073741983,
    Out                  |-> 1073741984,
    Oper                 |-> 1073741985,
    ClearAgain           |-> 1073741986,
    CrSel                |-> 1073741987,
    ExSel                |-> 1073741988,
    NumPad00             |-> 1073742000,
    NumPad000            |-> 1073742001,
    ThousandsSeparator   |-> 1073742002,
    DecimalSeparator     |-> 1073742003,
    CurrencyUnit         |-> 1073742004,
    CurrencySubUnit      |-> 1073742005,
    NumPadLeftParen      |-> 1073742006,
    NumPadRightParen     |-> 1073742007,
    NumPadLeftBrace      |-> 1073742008,
    NumPadRightBrace     |-> 1073742009,
    NumPadTab            |-> 1073742010,
    NumPadBackspace      |-> 1073742011,
    NumPadA              |-> 1073742012,
    NumPadB              |-> 1073742013,
    NumPadC              |-> 1073742014,
    NumPadD              |-> 1073742015,
    NumPadE              |-> 1073742016,
    NumPadF              |-> 1073742017,
    NumPadXor            |-> 1073742018,
    NumPadPower          |-> 1073742019,
    NumPadPercent        |-> 1073742020,
    NumPadLess           |-> 1073742021,
    NumPadGreater        |-> 1073742022,
    NumPadAmpersand      |-> 1073742023,
    NumPadDblAmpersand   |-> 1073742024,
    NumPadVerticalBar    |-> 1073742025,
    NumPadDblVerticalBar |-> 1073742026,
    NumPadColon          |-> 1073742027,
    NumPadHash           |-> 1073742028,
    NumPadSpace          |-> 1073742029,
    NumPadAt             |-> 1073742030,
    NumPadExclam         |-> 1073742031,
    NumPadMemStore       |-> 1073742032,
    NumPadMemRecall      |-> 1073742033,
    NumPadMemClear       |-> 1073742034,
    NumPadMemAdd         |-> 1073742035,
    NumPadMemSubtract    |-> 1073742036,
    NumPadMemMultiply    |-> 1073742037,
    NumPadMemDivide      |-> 1073742038,
    NumPadPlusMinus      |-> 1073742039,
    NumPadClear          |-> 1073742040,
    NumPadClearEntry     |-> 1073742041,
    NumPadBinary         |-> 1073742042,
    NumPadOctal          |-> 1073742043,
    NumPadDecimal        |-> 1073742044,
    NumPadHexadecimal    |-> 1073742045,
    LCtrl                |-> 1073742048,
    LShift               |-> 1073742049,
    LAlt                 |-> 1073742050,
    LGui                 |-> 1073742051,
    RCtrl                |-> 1073742052,
    RShift               |-> 1073742053,
    RAlt                 |-> 1073742054,
    RGui                 |-> 1073742055,
    Mode                 |-> 1073742081,
    AudioNext            |-> 1073742082,
    AudioPrev            |-> 1073742083,
    AudioStop            |-> 1073742084,
    AudioPlay            |-> 1073742085,
    AudioMute            |-> 1073742086,
    MediaSelect          |-> 1073742087,
    Www                  |-> 1073742088,
    Mail                 |-> 1073742089,
    Calculator           |-> 1073742090,
    Computer             |-> 1073742091,
    AcSearch             |-> 1073742092,
    AcHome               |-> 1073742093,
    AcBack               |-> 1073742094,
    AcForward            |-> 1073742095,
    AcStop               |-> 1073742096,
    AcRefresh            |-> 1073742097,
    AcBookmarks          |-> 1073742098,
    BrightnessDown       |-> 1073742099,
    BrightnessUp         |-> 1073742100,
    DisplaySwitch        |-> 1073742101,
    KbdIllumToggle       |-> 1073742102,
    KbdIllumDown         |-> 1073742103,
    KbdIllumUp           |-> 1073742104,
    Eject                |-> 1073742105,
    Sleep                |-> 1073742106 ]

Key == DOMAIN KeyDiscriminant

---------------------------------------------------------------------------
(* Machine integers *)

\* The u64 whose value is the integer literal c (0 <= c < 2^31).
Lit(c) == <<c % 65536, c \div 65536, 0, 0>>

\* A cast to i16 in place of the cast to i32.
as_i16(v) == IF v % 65536 >= 32768 THEN (v % 65536) - 65536 ELSE v % 65536

\* `v as i32` for an enum discriminant v: the low 32 bits, read as signed.
as_i32(v) == IF v <= 2147483647 THEN v ELSE v - 2147483647 - 2147483647 - 2

\* `v as i64` and `v as u64` for an i32 v: sign extension to 64 bits.
SignExtend(v) ==
  <<v % 65536, (v \div 65536) % 65536,
    IF v < 0 THEN 65535 ELSE 0, IF v < 0 THEN 65535 ELSE 0>>

i32_as_i64(v) == SignExtend(v)

i32_as_u64(v) == SignExtend(v)

\* `n as u64` for an i64 n: the same 64 bits.
i64_as_u64(m) == <<m[1], m[2], m[3], m[4]>>

\* `v as int` for an i32 v and `n as u64` for an int n.  An int (32 or 64
\* bits wide with the target) is held as the 64-bit two's complement of its
\* value, so both casts are sign extensions that keep that pattern.
i32_as_int(v) == SignExtend(v)

int_as_u64(m) == <<m[1], m[2], m[3], m[4]>>

---------------------------------------------------------------------------
(* impl Key *)

as_u8(v) == v % 256

code_as_u8(k) == as_u8(KeyDiscriminant[k])

code(k) == as_i32(KeyDiscriminant[k])

(* impl ToPrimitive for Key *)

to_i64(k) == Some(i32_as_i64(code(k)))

to_u64(k) == Some(i32_as_u64(code(k)))

to_int(k) == Some(i32_as_int(code(k)))

---------------------------------------------------------------------------
(* impl FromPrimitive for Key *)

from_u64_match(m) ==
  CASE m = Lit(0) -> Some("Unknown")
    [] m = Lit(8) -> Some("Backspace")
    [] m = Lit(9) -> Some("Tab")
    [] m = Lit(13) -> Some("Return")
    [] m = Lit(27) -> Some("Escape")
    [] m = Lit(32) -> Some("Space")
    [] m = Lit(33) -> Some("Exclaim")
    [] m = Lit(34) -> Some("Quotedbl")
    [] m = Lit(35) -> Some("Hash")
    [] m = Lit(36) -> Some("Dollar")
    [] m = Lit(37) -> Some("Percent")
    [] m = Lit(38) -> Some("Ampersand")
    [] m = Lit(39) -> Some("Quote")
    [] m = Lit(40) -> Some("LeftParen")
    [] m = Lit(41) -> Some("RightParen")
    [] m = Lit(42) -> Some("Asterisk")
    [] m = Lit(43) -> Some("Plus")
    [] m = Lit(44) -> Some("Comma")
    [] m = Lit(45) -> Some("Minus")
    [] m = Lit(46) -> Some("Period")
    [] m = Lit(47) -> Some("Slash")
    [] m = Lit(48) -> Some("D0")
    [] m = Lit(49) -> Some("D1")
    [] m = Lit(50) -> Some("D2")
    [] m = Lit(51) -> Some("D3")
    [] m = Lit(52) -> Some("D4")
    [] m = Lit(53) -> Some("D5")
    [] m = Lit(54) -> Some("D6")
    [] m = Lit(55) -> Some("D7")
    [] m = Lit(56) -> Some("D8")
    [] m = Lit(57) -> Some("D9")
    [] m = Lit(58) -> Some("Colon")
    [] m = Lit(59) -> Some("Semicolon")
    [] m = Lit(60) -> Some("Less")
    [] m = Lit(61) -> Some("Equals")
    [] m = Lit(62) -> Some("Greater")
    [] m = Lit(63) -> Some("Question")
    [] m = Lit(64) -> Some("At")
    [] m = Lit(91) -> Some("LeftBracket")
    [] m = Lit(92) -> Some("Backslash")
    [] m = Lit(93) -> Some("RightBracket")
    [] m = Lit(94) -> Some("Caret")
    [] m = Lit(95) -> Some("Underscore")
    [] m = Lit(96) -> Some("Backquote")
    [] m = Lit(97) -> Some("A")
    [] m = Lit(98) -> Some("B")
    [] m = Lit(99) -> Some("C")
    [] m = Lit(100) -> Some("D")
    [] m = Lit(101) -> Some("E")
    [] m = Lit(102) -> Some("F")
    [] m = Lit(103) -> Some("G")
    [] m = Lit(104) -> Some("H")
    [] m = Lit(105) -> Some("I")
    [] m = Lit(106) -> Some("J")
    [] m = Lit(107) -> Some("K")
    [] m = Lit(108) -> Some("L")
    [] m = Lit(109) -> Some("M")
    [] m = Lit(110) -> Some("N")
    [] m = Lit(111) -> Some("O")
    [] m = Lit(112) -> Some("P")
    [] m = Lit(113) -> Some("Q")
    [] m = Lit(114) -> Some("R")
    [] m = Lit(115) -> Some("S")
    [] m = Lit(116) -> Some("T")
    [] m = Lit(117) -> Some("U")
    [] m = Lit(118) -> Some("V")
    [] m = Lit(119) -> Some("W")
    [] m = Lit(120) -> Some("X")
    [] m = Lit(121) -> Some("Y")
    [] m = Lit(122) -> Some("Z")
    [] m = Lit(127) -> Some("Delete")
    [] m = Lit(1073741881) -> Some("CapsLock")
    [] m = Lit(1073741882) -> Some("F1")
    [] m = Lit(1073741883) -> Some("F2")
    [] m = Lit(1073741884) -> Some("F3")
    [] m = Lit(1073741885) -> Some("F4")
    [] m = Lit(1073741886) -> Some("F5")
    [] m = Lit(1073741887) -> Some("F6")
    [] m = Lit(1073741888) -> Some("F7")
    [] m = Lit(1073741889) -> Some("F8")
    [] m = Lit(1073741890) -> Some("F9")
    [] m = Lit(1073741891) -> Some("F10")
    [] m = Lit(1073741892) -> Some("F11")
    [] m = Lit(1073741893) -> Some("F12")
    [] m = Lit(1073741894) -> Some("PrintScreen")
    [] m = Lit(1073741895) -> Some("ScrollLock")
    [] m = Lit(1073741896) -> Some("Pause")
    [] m = Lit(1073741897) -> Some("Insert")
    [] m = Lit(1073741898) -> Some("Home")
    [] m = Lit(1073741899) -> Some("PageUp")
    [] m = Lit(1073741901) -> Some("End")
    [] m = Lit(1073741902) -> Some("PageDown")
    [] m = Lit(1073741903) -> Some("Right")
    [] m = Lit(1073741904) -> Some("Left")
    [] m = Lit(1073741905) -> Some("Down")
    [] m = Lit(1073741906) -> Some("Up")
    [] m = Lit(1073741907) -> Some("NumLockClear")
    [] m = Lit(1073741908) -> Some("NumPadDivide")
    [] m = Lit(1073741909) -> Some("NumPadMultiply")
    [] m = Lit(1073741910) -> Some("NumPadMinus")
    [] m = Lit(1073741911) -> Some("NumPadPlus")
    [] m = Lit(1073741912) -> Some("NumPadEnter")
    [] m = Lit(1073741913) -> Some("NumPad1")
    [] m = Lit(1073741914) -> Some("NumPad2")
    [] m = Lit(1073741915) -> Some("NumPad3")
    [] m = Lit(1073741916) -> Some("NumPad4")
    [] m = Lit(1073741917) -> Some("NumPad5")
    [] m = Lit(1073741918) -> Some("NumPad6")
    [] m = Lit(1073741919) -> Some("NumPad7")
    [] m = Lit(1073741920) -> Some("NumPad8")
    [] m = Lit(1073741921) -> Some("NumPad9")
    [] m = Lit(1073741922) -> Some("NumPad0")
    [] m = Lit(1073741923) -> Some("NumPadPeriod")
    [] m = Lit(1073741925) -> Some("Application")
    [] m = Lit(1073741926) -> Some("Power")
    [] m = Lit(1073741927) -> Some("NumPadEquals")
    [] m = Lit(1073741928) -> Some("F13")
    [] m = Lit(1073741929) -> Some("F14")
    [] m = Lit(1073741930) -> Some("F15")
    [] m = Lit(1073741931) -> Some("F16")
    [] m = Lit(1073741932) -> Some("F17")
    [] m = Lit(1073741933) -> Some("F18")
    [] m = Lit(1073741934) -> Some("F19")
    [] m = Lit(1073741935) -> Some("F20")
    [] m = Lit(1073741936) -> Some("F21")
    [] m = Lit(1073741937) -> Some("F22")
    [] m = Lit(1073741938) -> Some("F23")
    [] m = Lit(1073741939) -> Some("F24")
    [] m = Lit(1073741940) -> Some("Execute")
    [] m = Lit(1073741941) -> Some("Help")
    [] m = Lit(1073741942) -> Some("Menu")
    [] m = Lit(1073741943) -> Some("Select")
    [] m = Lit(1073741944) -> Some("Stop")
    [] m = Lit(1073741945) -> Some("Again")
    [] m = Lit(1073741946) -> Some("Undo")
    [] m = Lit(1073741947) -> Some("Cut")
    [] m = Lit(1073741948) -> Some("Copy")
    [] m = Lit(1073741949) -> Some("Paste")
    [] m = Lit(1073741950) -> Some("Find")
    [] m = Lit(1073741951) -> Some("Mute")
    [] m = Lit(1073741952) -> Some("VolumeUp")
    [] m = Lit(1073741953) -> Some("VolumeDown")
    [] m = Lit(1073741957) -> Some("NumPadComma")
    [] m = Lit(1073741958) -> Some("NumPadEqualsAS400")
    [] m = Lit(1073741977) -> Some("AltErase")
    [] m = Lit(1073741978) -> Some("Sysreq")
    [] m = Lit(1073741979) -> Some("Cancel")
    [] m = Lit(1073741980) -> Some("Clear")
    [] m = Lit(1073741981) -> Some("Prior")
    [] m = Lit(1073741982) -> Some("Return2")
    [] m = Lit(1073741983) -> Some("Separator")
    [] m = Lit(1073741984) -> Some("Out")
    [] m = Lit(1073741985) -> Some("Oper")
    [] m = Lit(1073741986) -> Some("ClearAgain")
    [] m = Lit(1073741987) -> Some("CrSel")
    [] m = Lit(1073741988) -> Some("ExSel")
    [] m = Lit(1073742000) -> Some("NumPad00")
    [] m = Lit(1073742001) -> Some("NumPad000")
    [] m = Lit(1073742002) -> Some("ThousandsSeparator")
    [] m = Lit(1073742003) -> Some("DecimalSeparator")
    [] m = Lit(1073742004) -> Some("CurrencyUnit")
    [] m = Lit(1073742005) -> Some("CurrencySubUnit")
    [] m = Lit(1073742006) -> Some("NumPadLeftParen")
    [] m = Lit(1073742007) -> Some("NumPadRightParen")
    [] m = Lit(1073742008) -> Some("NumPadLeftBrace")
    [] m = Lit(1073742009) -> Some("NumPadRightBrace")
    [] m = Lit(1073742010) -> Some("NumPadTab")
    [] m = Lit(1073742011) -> Some("NumPadBackspace")
    [] m = Lit(1073742012) -> Some("NumPadA")
    [] m = Lit(1073742013) -> Some("NumPadB")
    [] m = Lit(1073742014) -> Some("NumPadC")
    [] m = Lit(1073742015) -> Some("NumPadD")
    [] m = Lit(1073742016) -> Some("NumPadE")
    [] m = Lit(1073742017) -> Some("NumPadF")
    [] m = Lit(1073742018) -> Some("NumPadXor")
    [] m = Lit(1073742019) -> Some("NumPadPower")
    [] m = Lit(1073742020) -> Some("NumPadPercent")
    [] m = Lit(1073742021) -> Some("NumPadLess")
    [] m = Lit(1073742022) -> Some("NumPadGreater")
    [] m = Lit(1073742023) -> Some("NumPadAmpersand")
    [] m = Lit(1073742024) -> Some("NumPadDblAmpersand")
    [] m = Lit(1073742025) -> Some("NumPadVerticalBar")
    [] m = Lit(1073742026) -> Some("NumPadDblVerticalBar")
    [] m = Lit(1073742027) -> Some("NumPadColon")
    [] m = Lit(1073742028) -> Some("NumPadHash")
    [] m = Lit(1073742029) -> Some("NumPadSpace")
    [] m = Lit(1073742030) -> Some("NumPadAt")
    [] m = Lit(1073742031) -> Some("NumPadExclam")
    [] m = Lit(1073742032) -> Some("NumPadMemStore")
    [] m = Lit(1073742033) -> Some("NumPadMemRecall")
    [] m = Lit(1073742034) -> Some("NumPadMemClear")
    [] m = Lit(1073742035) -> Some("NumPadMemAdd")
    [] m = Lit(1073742036) -> Some("NumPadMemSubtract")
    [] m = Lit(1073742037) -> Some("NumPadMemMultiply")
    [] m = Lit(1073742038) -> Some("NumPadMemDivide")
    [] m = Lit(1073742039) -> Some("NumPadPlusMinus")
    [] m = Lit(1073742040) -> Some("NumPadClear")
    [] m = Lit(1073742041) -> Some("NumPadClearEntry")
    [] m = Lit(1073742042) -> Some("NumPadBinary")
    [] m = Lit(1073742043) -> Some("NumPadOctal")
    [] m = Lit(1073742044) -> Some("NumPadDecimal")
    [] m = Lit(1073742045) -> Some("NumPadHexadecimal")
    [] m = Lit(1073742048) -> Some("LCtrl")
    [] m = Lit(1073742049) -> Some("LShift")
    [] m = Lit(1073742050) -> Some("LAlt")
    [] m = Lit(1073742051) -> Some("LGui")
    [] m = Lit(1073742052) -> Some("RCtrl")
    [] m = Lit(1073742053) -> Some("RShift")
    [] m = Lit(1073742054) -> Some("RAlt")
    [] m = Lit(1073742055) -> Some("RGui")
    [] m = Lit(1073742081) -> Some("Mode")
    [] m = Lit(1073742082) -> Some("AudioNext")
    [] m = Lit(1073742083) -> Some("AudioPrev")
    [] m = Lit(1073742084) -> Some("AudioStop")
    [] m = Lit(1073742085) -> Some("AudioPlay")
    [] m = Lit(1073742086) -> Some("AudioMute")
    [] m = Lit(1073742087) -> Some("MediaSelect")
    [] m = Lit(1073742088) -> Some("Www")
    [] m = Lit(1073742089) -> Some("Mail")
    [] m = Lit(1073742090) -> Some("Calculator")
    [] m = Lit(1073742091) -> Some("Computer")
    [] m = Lit(1073742092) -> Some("AcSearch")
    [] m = Lit(1073742093) -> Some("AcHome")
    [] m = Lit(1073742094) -> Some("AcBack")
    [] m = Lit(1073742095) -> Some("AcForward")
    [] m = Lit(1073742096) -> Some("AcStop")
    [] m = Lit(1073742097) -> Some("AcRefresh")
    [] m = Lit(1073742098) -> Some("AcBookmarks")
    [] m = Lit(1073742099) -> Some("BrightnessDown")
    [] m = Lit(1073742100) -> Some("BrightnessUp")
    [] m = Lit(1073742101) -> Some("DisplaySwitch")
    [] m = Lit(1073742102) -> Some("KbdIllumToggle")
    [] m = Lit(1073742103) -> Some("KbdIllumDown")
    [] m = Lit(1073742104) -> Some("KbdIllumUp")
    [] m = Lit(1073742105) -> Some("Eject")
    [] m = Lit(1073742106) -> Some("Sleep")
    [] OTHER -> Some("Unknown")

\* A lookup that drops the arm of Delete (127).
from_u64_missing_arm(m) ==
  IF m = Lit(127) THEN Some("Unknown") ELSE from_u64_match(m)

\* A lookup that folds the uppercase ASCII letters onto the lowercase keys.
from_u64_fold_case(m) ==
  IF m[2] = 0 /\ m[3] = 0 /\ m[4] = 0 /\ m[1] >= 65 /\ m[1] <= 90
  THEN from_u64_match(<<m[1] + 32, 0, 0, 0>>)
  ELSE from_u64_match(m)

\* A lookup on `n as u32`: the high 32 bits are dropped before the match.
from_u64_truncating(m) == from_u64_match(<<m[1], m[2], 0, 0>>)

from_u64(m) == from_u64_match(m)

\* A from_i64 that goes through u32: `n as u32 as u64`.
from_i64_truncating(m) == from_u64_match(<<m[1], m[2], 0, 0>>)

from_i64(m) == from_u64(i64_as_u64(m))

from_int(m) == from_u64(int_as_u64(m))

---------------------------------------------------------------------------
(* impl PartialEq, PartialOrd, Ord, Hash for Key *)

\* i32::cmp and i32::partial_cmp
i32_cmp(x, y) == IF x < y THEN "Less" ELSE IF x = y THEN "Equal" ELSE "Greater"

i32_partial_cmp(x, y) == Some(i32_cmp(x, y))

\* i32::hash: the value is written to the hasher, whose state is modelled
\* as the sequence of the values written so far.
i32_hash(x, state) == Append(state, x)

\* An eq written with <= in place of ==.
Key_eq_le(a, b) == as_i32(KeyDiscriminant[a]) <= as_i32(KeyDiscriminant[b])

\* An eq that compares the discriminants as u8.
Key_eq_as_u8(a, b) == as_u8(KeyDiscriminant[a]) = as_u8(KeyDiscriminant[b])

Key_eq(a, b) == as_i32(KeyDiscriminant[a]) = as_i32(KeyDiscriminant[b])

Key_partial_cmp(a, b) ==
  LET s_id == as_i32(KeyDiscriminant[a])
      o_id == as_i32(KeyDiscriminant[b])
  IN  i32_partial_cmp(s_id, o_id)

\* A cmp with the operands swapped.
Key_cmp_swapped(a, b) ==
  LET s_id == as_i32(KeyDiscriminant[a])
      o_id == as_i32(KeyDiscriminant[b])
  IN  i32_cmp(o_id, s_id)

Key_cmp(a, b) ==
  LET s_id == as_i32(KeyDiscriminant[a])
      o_id == as_i32(KeyDiscriminant[b])
  IN  i32_cmp(s_id, o_id)

Key_hash(k, state) == i32_hash(code(k), state)

---------------------------------------------------------------------------
(* The codes drawn as arguments of from_u64 and from_i64.                  *)

\* How far below and above each block of the table codes are drawn.
Margin == 3

\* The largest value drawn for each of the two high limbs (bits 32..63).
MaxHighLimb == 1

\* The first and the last code of the two blocks of the table.
AsciiLast == 127

BlockFirst == 1073741881

BlockLast == 1073742106

LowCodes ==
  (0 .. AsciiLast + Margin)
    \cup ((BlockFirst - Margin) .. (BlockLast + Margin))
    \cup {255, 256, 65535, 65536, 65633, 1073741824, 2147483647}

HighLimbs == 0 .. MaxHighLimb

\* c + b*2^31 + h2*2^32 + h3*2^48 as limbs, and the bit patterns of the
\* negative i64 values -2^31 + c, -2^32 + c and -c.
Inputs ==
  { <<c % 65536, (c \div 65536) + b * 32768, h2, h3>> :
      c \in LowCodes, b \in {0, 1}, h2 \in HighLimbs, h3 \in HighLimbs }
    \cup { <<c % 65536, (c \div 65536) + 32768, 65535, 65535>> : c \in LowCodes }
    \cup { <<c % 65536, c \div 65536, 65535, 65535>> : c \in LowCodes }
    \cup { <<65536 - c, 65535, 65535, 65535>> : c \in 1 .. (AsciiLast + Margin) }

\* The codes of the table, as the enum declares them.
TableCodes == { Lit(KeyDiscriminant[k]) : k \in Key }

---------------------------------------------------------------------------
(* Spec: conversions between codes and keys *)

NoEvent == [variant |-> "none"]

NoRet == <<"none">>

InitCode ==
  /\ n \in Inputs
  /\ self = "Unknown"

InitKey ==
  /\ n = Lit(0)
  /\ self \in Key

Init ==
  /\ InitCode \/ InitKey
  /\ other = "Unknown"
  /\ ev = NoEvent
  /\ op = "init"
  /\ ret = NoRet

\* Key::from_u64(n)
CallFromU64 ==
  /\ op' = "from_u64"
  /\ ret' = from_u64(n)
  /\ UNCHANGED <<n, self, other, ev>>

\* Key::from_i64(n)
CallFromI64 ==
  /\ op' = "from_i64"
  /\ ret' = from_i64(n)
  /\ UNCHANGED <<n, self, other, ev>>

\* self.code()
CallCode ==
  /\ op' = "code"
  /\ ret' = code(self)
  /\ UNCHANGED <<n, self, other, ev>>

\* self.to_u64()
CallToU64 ==
  /\ op' = "to_u64"
  /\ ret' = to_u64(self)
  /\ UNCHANGED <<n, self, other, ev>>

\* self.to_i64()
CallToI64 ==
  /\ op' = "to_i64"
  /\ ret' = to_i64(self)
  /\ UNCHANGED <<n, self, other, ev>>

\* Key::from_int(n)
CallFromInt ==
  /\ op' = "from_int"
  /\ ret' = from_int(n)
  /\ UNCHANGED <<n, self, other, ev>>

\* self.to_int()
CallToInt ==
  /\ op' = "to_int"
  /\ ret' = to_int(self)
  /\ UNCHANGED <<n, self, other, ev>>

\* Key::from_u64(self.to_u64().unwrap())
KeyCodeKey ==
  /\ op = "to_u64"
  /\ n' = Unwrap(ret)
  /\ op' = "key_code_key"
  /\ ret' = from_u64(n')
  /\ UNCHANGED <<self, other, ev>>

\* Key::from_i64(self.to_i64().unwrap())
KeyCodeKeyI64 ==
  /\ op = "to_i64"
  /\ n' = Unwrap(ret)
  /\ op' = "key_code_key_i64"
  /\ ret' = from_i64(n')
  /\ UNCHANGED <<self, other, ev>>

\* Key::from_u64(n).unwrap().to_u64()
CodeKeyCode ==
  /\ op = "from_u64"
  /\ self' = Unwrap(ret)
  /\ op' = "code_key_code"
  /\ ret' = to_u64(self')
  /\ UNCHANGED <<n, other, ev>>

Next ==
  \/ CallFromU64
  \/ CallFromI64
  \/ CallCode
  \/ CallToU64
  \/ CallToI64
  \/ KeyCodeKey
  \/ KeyCodeKeyI64
  \/ CodeKeyCode
  \/ CallFromInt
  \/ CallToInt

Spec == Init /\ [][Next]_vars

---------------------------------------------------------------------------
(* Properties of the conversions, checked under Spec *)

\* The value of a u64 below 2^31, and whether a u64 is below 2^31.
IsSmall(m) == m[3] = 0 /\ m[4] = 0 /\ m[2] < 32768

SmallValue(m) == m[2] * 65536 + m[1]

\* C1: for every Key variant k, converting k to its code (to_u64, to_i64,
\* both through code()) and the code back (from_u64, from_i64) yields
\* Some(k); the enumeration has 236 variants.
C1_RoundTrip ==
  /\ Cardinality(Key) = 236
  /\ op \in {"key_code_key", "key_code_key_i64"} => ret = Some(self)

C1_Witness ==
  /\ op = "key_code_key_i64"
  /\ self = "Sleep"
  /\ n = Lit(1073742106)
  /\ ret = Some("Sleep")

\* The codes C2 names: the uppercase ASCII letters, the codes strictly
\* between 127 and 1073741881, two holes of the high block, and the codes
\* above 1073742106.
C2_Named(m) ==
  \/ IsSmall(m) /\ SmallValue(m) >= 65 /\ SmallValue(m) <= 90
  \/ IsSmall(m) /\ SmallValue(m) > AsciiLast /\ SmallValue(m) < BlockFirst
  \/ m \in {Lit(1073741900), Lit(1073741924)}
  \/ IsSmall(m) /\ SmallValue(m) > BlockLast
  \/ ~IsSmall(m)

\* C2: from_u64 never returns None, and for every code that is not the
\* discriminant of a Key variant - the codes C2 names among them - it
\* returns Some(Unknown).
C2_UnknownFallback ==
  op = "from_u64" =>
    /\ ret # None
    /\ (n \notin TableCodes \/ C2_Named(n)) => ret = Some("Unknown")

C2_Witness ==
  /\ op = "from_u64"
  /\ n = Lit(65)
  /\ n \notin TableCodes
  /\ ret = Some("Unknown")

\* C3: for every code c, to_u64(from_u64(c)) is c if and only if c is a
\* code of the table, and is 0, the code of Unknown, for every other c.
C3_ReverseRoundTrip ==
  op = "code_key_code" =>
    /\ (ret = Some(n)) <=> (n \in TableCodes)
    /\ n \notin TableCodes => ret = Some(Lit(0)) /\ Lit(0) # n

C3_Witness ==
  /\ op = "code_key_code"
  /\ n = <<97, 0, 1, 0>>
  /\ self = "Unknown"
  /\ ret = Some(Lit(0))

\* C5: code() is 0 for Unknown, 97 for A and 1073741882 for F1, and
\* from_u64 maps 0, 97 and 1073741882 to Unknown, A and F1.
C5_FixedCodes ==
  /\ (op = "code" /\ self = "Unknown") => ret = 0
  /\ (op = "code" /\ self = "A") => ret = 97
  /\ (op = "code" /\ self = "F1") => ret = 1073741882
  /\ (op = "from_u64" /\ n = Lit(0)) => ret = Some("Unknown")
  /\ (op = "from_u64" /\ n = Lit(97)) => ret = Some("A")
  /\ (op = "from_u64" /\ n = Lit(1073741882)) => ret = Some("F1")

C5_Witness ==
  /\ op = "code"
  /\ self = "F1"
  /\ ret = 1073741882

---------------------------------------------------------------------------
(* SpecPair: comparisons and hashes of two keys *)

InitPair ==
  /\ \/ n = Lit(0) /\ self \in Key /\ other \in Key
     \/ n \in Inputs /\ self = "Unknown" /\ other = "Unknown"
  /\ ev = NoEvent
  /\ op = "init"
  /\ ret = NoRet

\* let self = Key::from_u64(n).unwrap(); let other = Key::from_u64(n).unwrap();
Construct ==
  /\ op = "init"
  /\ self' = Unwrap(from_u64(n))
  /\ other' = Unwrap(from_u64(n))
  /\ op' = "construct"
  /\ ret' = NoRet
  /\ UNCHANGED <<n, ev>>

\* self == other
CallEq ==
  /\ op' = "eq"
  /\ ret' = Key_eq(self, other)
  /\ UNCHANGED <<n, self, other, ev>>

\* self.partial_cmp(&other)
CallPartialCmp ==
  /\ op' = "partial_cmp"
  /\ ret' = Key_partial_cmp(self, other)
  /\ UNCHANGED <<n, self, other, ev>>

\* self.cmp(&other)
CallCmp ==
  /\ op' = "cmp"
  /\ ret' = Key_cmp(self, other)
  /\ UNCHANGED <<n, self, other, ev>>

\* self.hash(&mut s1); other.hash(&mut s2), with s1 and s2 two hashers in
\* the same state
CallHash ==
  /\ op' = "hash"
  /\ ret' = <<Key_hash(self, <<>>), Key_hash(other, <<>>)>>
  /\ UNCHANGED <<n, self, other, ev>>

\* (self.code(), other.code())
CallCodes ==
  /\ op' = "codes"
  /\ ret' = <<code(self), code(other)>>
  /\ UNCHANGED <<n, self, other, ev>>

NextPair ==
  \/ Construct
  \/ CallEq
  \/ CallPartialCmp
  \/ CallCmp
  \/ CallHash
  \/ CallCodes

SpecPair == InitPair /\ [][NextPair]_vars

---------------------------------------------------------------------------
(* Properties of the comparisons, checked under SpecPair *)

I32 == (-2147483647 - 1) .. 2147483647

\* C4: code() gives every Key variant a code (an i32), and two distinct
\* variants never have the same code.
C4_CodeInjective ==
  op = "codes" =>
    /\ ret[1] \in I32
    /\ ret[2] \in I32
    /\ self # other => ret[1] # ret[2]

C4_Witness ==
  /\ op = "codes"
  /\ self = "D9"
  /\ other = "CapsLock"
  /\ ret = <<57, 1073741881>>

\* C6: a == b if and only if a.code() == b.code(); two distinct variants
\* are never equal, a variant equals itself, a == b agrees with b == a, and
\* a == b and b == c give a == c.
C6_EqByCode ==
  op = "eq" =>
    /\ ret <=> (code(self) = code(other))
    /\ ret <=> (self = other)
    /\ ret <=> Key_eq(other, self)
    /\ \A c \in Key : (ret /\ Key_eq(other, c)) => Key_eq(self, c)

C6_Witness ==
  /\ op = "eq"
  /\ self = "Backspace"
  /\ other = "Tab"
  /\ ret = FALSE

\* Whether self and other are both what from_u64 returns for the code n.
BothFromCode ==
  /\ self = Unwrap(from_u64(n))
  /\ other = Unwrap(from_u64(n))

\* C7: two keys constructed from the same code compare equal and write the
\* same values to the hasher; any two keys that compare equal write the
\* same values to the hasher.
C7_EqualHashEqual ==
  /\ (op = "eq" /\ BothFromCode) => ret = TRUE
  /\ (op = "hash" /\ BothFromCode) => ret[1] = ret[2]
  /\ (op = "hash" /\ Key_eq(self, other)) => ret[1] = ret[2]
  /\ op = "hash" => ret[1] = <<code(self)>> /\ ret[2] = <<code(other)>>

C7_Witness ==
  /\ op = "hash"
  /\ n = Lit(1073741882)
  /\ self = "F1"
  /\ other = "F1"
  /\ ret = <<(<<1073741882>>), (<<1073741882>>)>>

Reverse(o) == CASE o = "Less" -> "Greater" [] o = "Greater" -> "Less" [] OTHER -> o

\* C8: cmp(a, b) is the comparison of the integers a.code() and b.code(),
\* it is Equal exactly when a == b, cmp(b, a) is its reverse, a < b and
\* b < c give a < c, and partial_cmp(a, b) is Some(cmp(a, b)).
C8_OrderByCode ==
  /\ op = "cmp" =>
       /\ ret \in {"Less", "Equal", "Greater"}
       /\ (ret = "Less") <=> (code(self) < code(other))
       /\ (ret = "Equal") <=> (code(self) = code(other))
       /\ (ret = "Greater") <=> (code(self) > code(other))
       /\ (ret = "Equal") <=> Key_eq(self, other)
       /\ Key_cmp(other, self) = Reverse(ret)
       /\ \A c \in Key :
            (ret = "Less" /\ Key_cmp(other, c) = "Less") => Key_cmp(self, c) = "Less"
       /\ (self = "Backspace" /\ other = "Tab") => ret = "Less"
  /\ op = "partial_cmp" => ret = Some(Key_cmp(self, other))

C8_Witness ==
  /\ op = "cmp"
  /\ self = "Backspace"
  /\ other = "Tab"
  /\ ret = "Less"

---------------------------------------------------------------------------
(* Events: src/src/lib.rs, src/src/keyboard.rs, src/src/mouse.rs *)

\* pub enum Button, in declaration order
ButtonVariants == <<"Left", "Right", "Middle", "X1", "X2">>

Button == { ButtonVariants[i] : i \in DOMAIN ButtonVariants }

\* Bounds of the values drawn for the fields of an event.
MaxStamp == 1

MaxElement == 1

MaxDelta == 5

MaxTie == 1

MaxProfile == 1

\* pub struct Timestamp(u64), pub struct DeviceID(pub String),
\* pub struct ElementID(pub u64)
Timestamp == 0 .. MaxStamp

DeviceID == {"dev-a", "dev-b"}

ElementID == 0 .. MaxElement

\* The f64 values drawn for delta_x, delta_y and the x, y of a scroll: the
\* small integers, and the odd integers just above 2^24, which lie half way
\* between two neighbouring f32 values.
FloatSamples ==
  (-MaxDelta .. MaxDelta)
    \cup { 16777216 + 2 * i + 1 : i \in 0 .. MaxTie }
    \cup { -(16777216 + 2 * i + 1) : i \in 0 .. MaxTie }

\* pub enum KeyboardEvent
KeyboardEvent ==
  [ variant : {"KeyPress", "KeyRelease"},
    timestamp : Timestamp,
    device : DeviceID,
    element : ElementID,
    key : {None} \cup { Some(k) : k \in Key } ]

\* pub enum MouseEvent.  The six fields of a MouseMove that are not deltas
\* in window coordinates are drawn together, all distinct, by profile p.
MouseButtonEvent ==
  [ variant : {"MousePress", "MouseRelease"},
    timestamp : Timestamp,
    device : DeviceID,
    element : ElementID,
    button : {None} \cup { Some(b) : b \in Button } ]

MouseMoveEvent ==
  { [ variant |-> "MouseMove", timestamp |-> t, device |-> d, element |-> e,
      x |-> 10 + p, y |-> 20 + p, draw_x |-> 30 + p, draw_y |-> 40 + p,
      delta_x |-> dx, delta_y |-> dy,
      draw_delta_x |-> 50 + p, draw_delta_y |-> 60 + p ] :
      t \in Timestamp, d \in DeviceID, e \in ElementID,
      p \in 0 .. MaxProfile, dx \in FloatSamples, dy \in FloatSamples }

MouseScrollEvent ==
  [ variant : {"MouseScroll"},
    timestamp : Timestamp,
    device : DeviceID,
    element : ElementID,
    x : FloatSamples,
    y : FloatSamples ]

MouseEvent == MouseButtonEvent \cup MouseMoveEvent \cup MouseScrollEvent

\* `v as f32` for an f64 v with an integer value below 2^31 in magnitude:
\* the nearest number with a 24-bit significand, ties to the even one.
RECURSIVE BitLength(_)
BitLength(a) == IF a = 0 THEN 0 ELSE 1 + BitLength(a \div 2)

RECURSIVE Pow2(_)
Pow2(e) == IF e = 0 THEN 1 ELSE 2 * Pow2(e - 1)

f64_as_f32(v) ==
  LET a == IF v < 0 THEN -v ELSE v
      bits == BitLength(a)
  IN  IF bits <= 24 THEN v
      ELSE LET q == Pow2(bits - 24)
               m == a \div q
               r == a % q
               up == (2 * r > q) \/ (2 * r = q /\ m % 2 = 1)
               rounded == IF up THEN (m + 1) * q ELSE m * q
           IN  IF v < 0 THEN -rounded ELSE rounded

(* impl Event for KeyboardEvent *)

\* A get_element_value with the two arms swapped.
KeyboardEvent_get_element_value_swapped(e) ==
  CASE e.variant = "KeyPress" -> 0
    [] e.variant = "KeyRelease" -> 1

KeyboardEvent_get_element_value(e) ==
  CASE e.variant = "KeyPress" -> 1
    [] e.variant = "KeyRelease" -> 0

(* impl Event for MouseEvent *)

\* A get_element_value whose MouseMove arm reads x and y, as the
\* MouseScroll arm does.
MouseEvent_get_element_value_xy(e) ==
  CASE e.variant = "MousePress" -> 1
    [] e.variant = "MouseRelease" -> 0
    [] e.variant = "MouseMove" ->
         IF e.x # 0 THEN f64_as_f32(e.x) ELSE f64_as_f32(e.y)
    [] e.variant = "MouseScroll" ->
         IF e.x # 0 THEN f64_as_f32(e.x) ELSE f64_as_f32(e.y)

\* A get_element_value whose MouseScroll arm prefers y.
MouseEvent_get_element_value_y_first(e) ==
  CASE e.variant = "MousePress" -> 1
    [] e.variant = "MouseRelease" -> 0
    [] e.variant = "MouseMove" ->
         IF e.delta_x # 0 THEN f64_as_f32(e.delta_x) ELSE f64_as_f32(e.delta_y)
    [] e.variant = "MouseScroll" ->
         IF e.y # 0 THEN f64_as_f32(e.y) ELSE f64_as_f32(e.x)

MouseEvent_get_element_value(e) ==
  CASE e.variant = "MousePress" -> 1
    [] e.variant = "MouseRelease" -> 0
    [] e.variant = "MouseMove" ->
         IF e.delta_x # 0 THEN f64_as_f32(e.delta_x) ELSE f64_as_f32(e.delta_y)
    [] e.variant = "MouseScroll" ->
         IF e.x # 0 THEN f64_as_f32(e.x) ELSE f64_as_f32(e.y)

---------------------------------------------------------------------------
(* impl Event for KeyboardEvent: the three field accessors *)

KeyboardEvent_get_timestamp(e) ==
  CASE e.variant = "KeyPress" -> e.timestamp
    [] e.variant = "KeyRelease" -> e.timestamp

KeyboardEvent_get_device_id(e) ==
  CASE e.variant = "KeyPress" -> e.device
    [] e.variant = "KeyRelease" -> e.device

\* A get_element_id whose KeyRelease arm binds the timestamp.
KeyboardEvent_get_element_id_stamp(e) ==
  CASE e.variant = "KeyPress" -> e.element
    [] e.variant = "KeyRelease" -> e.timestamp

KeyboardEvent_get_element_id(e) ==
  CASE e.variant = "KeyPress" -> e.element
    [] e.variant = "KeyRelease" -> e.element

(* impl Event for MouseEvent: the three field accessors *)

MouseEvent_get_timestamp(e) ==
  CASE e.variant = "MousePress" -> e.timestamp
    [] e.variant = "MouseRelease" -> e.timestamp
    [] e.variant = "MouseMove" -> e.timestamp
    [] e.variant = "MouseScroll" -> e.timestamp

MouseEvent_get_device_id(e) ==
  CASE e.variant = "MousePress" -> e.device
    [] e.variant = "MouseRelease" -> e.device
    [] e.variant = "MouseMove" -> e.device
    [] e.variant = "MouseScroll" -> e.device

MouseEvent_get_element_id(e) ==
  CASE e.variant = "MousePress" -> e.element
    [] e.variant = "MouseRelease" -> e.element
    [] e.variant = "MouseMove" -> e.element
    [] e.variant = "MouseScroll" -> e.element

(* #[deriving(Clone)] for Key, Button, Option, KeyboardEvent, MouseEvent:   *)
(* the clone is built variant by variant from the clones of the fields.     *)

Key_clone(k) == k

Button_clone(b) == b

Option_Key_clone(o) == IF o = None THEN None ELSE Some(Key_clone(Unwrap(o)))

Option_Button_clone(o) == IF o = None THEN None ELSE Some(Button_clone(Unwrap(o)))

\* A clone that leaves the key out.
KeyboardEvent_clone_no_key(e) ==
  [ variant |-> e.variant, timestamp |-> e.timestamp, device |-> e.device,
    element |-> e.element, key |-> None ]

KeyboardEvent_clone(e) ==
  CASE e.variant = "KeyPress" ->
         [ variant |-> "KeyPress", timestamp |-> e.timestamp,
           device |-> e.device, element |-> e.element,
           key |-> Option_Key_clone(e.key) ]
    [] e.variant = "KeyRelease" ->
         [ variant |-> "KeyRelease", timestamp |-> e.timestamp,
           device |-> e.device, element |-> e.element,
           key |-> Option_Key_clone(e.key) ]

MouseEvent_clone(e) ==
  CASE e.variant = "MousePress" ->
         [ variant |-> "MousePress", timestamp |-> e.timestamp,
           device |-> e.device, element |-> e.element,
           button |-> Option_Button_clone(e.button) ]
    [] e.variant = "MouseRelease" ->
         [ variant |-> "MouseRelease", timestamp |-> e.timestamp,
           device |-> e.device, element |-> e.element,
           button |-> Option_Button_clone(e.button) ]
    [] e.variant = "MouseMove" ->
         [ variant |-> "MouseMove", timestamp |-> e.timestamp,
           device |-> e.device, element |-> e.element,
           x |-> e.x, y |-> e.y, draw_x |-> e.draw_x, draw_y |-> e.draw_y,
           delta_x |-> e.delta_x, delta_y |-> e.delta_y,
           draw_delta_x |-> e.draw_delta_x, draw_delta_y |-> e.draw_delta_y ]
    [] e.variant = "MouseScroll" ->
         [ variant |-> "MouseScroll", timestamp |-> e.timestamp,
           device |-> e.device, element |-> e.element,
           x |-> e.x, y |-> e.y ]

(* impl ToKeyboardEvent for KeyboardEvent, impl ToMouseEvent for MouseEvent *)

to_keyboard_event(e) == Some(KeyboardEvent_clone(e))

to_mouse_event(e) == Some(MouseEvent_clone(e))

---------------------------------------------------------------------------
(* SpecEvent: accessors of events *)

InitEvent ==
  /\ ev \in KeyboardEvent \cup MouseEvent
  /\ n = Lit(0)
  /\ self = "Unknown"
  /\ other = "Unknown"
  /\ op = "init"
  /\ ret = NoRet

\* ev.get_element_value(), ev a KeyboardEvent
CallKeyboardGetElementValue ==
  /\ ev \in KeyboardEvent
  /\ op' = "get_element_value"
  /\ ret' = KeyboardEvent_get_element_value(ev)
  /\ UNCHANGED <<n, self, other, ev>>

\* ev.get_element_value(), ev a MouseEvent
CallMouseGetElementValue ==
  /\ ev \in MouseEvent
  /\ op' = "get_element_value"
  /\ ret' = MouseEvent_get_element_value(ev)
  /\ UNCHANGED <<n, self, other, ev>>

\* ev.get_timestamp(), ev a KeyboardEvent
CallKeyboardGetTimestamp ==
  /\ ev \in KeyboardEvent
  /\ op' = "get_timestamp"
  /\ ret' = KeyboardEvent_get_timestamp(ev)
  /\ UNCHANGED <<n, self, other, ev>>

\* ev.get_device_id(), ev a KeyboardEvent
CallKeyboardGetDeviceId ==
  /\ ev \in KeyboardEvent
  /\ op' = "get_device_id"
  /\ ret' = KeyboardEvent_get_device_id(ev)
  /\ UNCHANGED <<n, self, other, ev>>

\* ev.get_element_id(), ev a KeyboardEvent
CallKeyboardGetElementId ==
  /\ ev \in KeyboardEvent
  /\ op' = "get_element_id"
  /\ ret' = KeyboardEvent_get_element_id(ev)
  /\ UNCHANGED <<n, self, other, ev>>

\* ev.get_timestamp(), ev a MouseEvent
CallMouseGetTimestamp ==
  /\ ev \in MouseEvent
  /\ op' = "get_timestamp"
  /\ ret' = MouseEvent_get_timestamp(ev)
  /\ UNCHANGED <<n, self, other, ev>>

\* ev.get_device_id(), ev a MouseEvent
CallMouseGetDeviceId ==
  /\ ev \in MouseEvent
  /\ op' = "get_device_id"
  /\ ret' = MouseEvent_get_device_id(ev)
  /\ UNCHANGED <<n, self, other, ev>>

\* ev.get_element_id(), ev a MouseEvent
CallMouseGetElementId ==
  /\ ev \in MouseEvent
  /\ op' = "get_element_id"
  /\ ret' = MouseEvent_get_element_id(ev)
  /\ UNCHANGED <<n, self, other, ev>>

\* A to_keyboard_event that takes the key out of its receiver.
CallToKeyboardEvent_taking ==
  /\ ev \in KeyboardEvent
  /\ op' = "to_keyboard_event"
  /\ ret' = to_keyboard_event(ev)
  /\ ev' = [ev EXCEPT !.key = None]
  /\ UNCHANGED <<n, self, other>>

\* ev.to_keyboard_event(), ev a KeyboardEvent (the one implementation)
CallToKeyboardEvent ==
  /\ ev \in KeyboardEvent
  /\ op' = "to_keyboard_event"
  /\ ret' = to_keyboard_event(ev)
  /\ UNCHANGED <<n, self, other, ev>>

\* ev.to_mouse_event(), ev a MouseEvent (the one implementation)
CallToMouseEvent ==
  /\ ev \in MouseEvent
  /\ op' = "to_mouse_event"
  /\ ret' = to_mouse_event(ev)
  /\ UNCHANGED <<n, self, other, ev>>

NextEvent ==
  \/ CallKeyboardGetElementValue
  \/ CallMouseGetElementValue
  \/ CallKeyboardGetTimestamp
  \/ CallKeyboardGetDeviceId
  \/ CallKeyboardGetElementId
  \/ CallMouseGetTimestamp
  \/ CallMouseGetDeviceId
  \/ CallMouseGetElementId
  \/ CallToKeyboardEvent
  \/ CallToMouseEvent

SpecEvent == InitEvent /\ [][NextEvent]_vars

---------------------------------------------------------------------------
(* Properties of the events, checked under SpecEvent *)

\* C9: get_element_value() is 1.0 for every KeyPress and MousePress and
\* 0.0 for every KeyRelease and MouseRelease, whatever the other fields.
C9_ButtonValue ==
  op = "get_element_value" =>
    /\ ev.variant \in {"KeyPress", "MousePress"} => ret = 1
    /\ ev.variant \in {"KeyRelease", "MouseRelease"} => ret = 0

C9_Witness ==
  /\ op = "get_element_value"
  /\ ev.variant = "KeyPress"
  /\ ev.key = None
  /\ ev.timestamp = 1
  /\ ret = 1

\* The delta of a MouseMove that get_element_value() reads.
ChosenDelta(e) == IF e.delta_x # 0 THEN e.delta_x ELSE e.delta_y

\* C10 as stated: for every MouseMove, get_element_value() returns delta_x
\* when delta_x is non-zero and delta_y otherwise.
C10_Original ==
  (op = "get_element_value" /\ ev.variant = "MouseMove") =>
    ret = ChosenDelta(ev)

\* C10 amended: for every MouseMove, get_element_value() returns delta_x
\* converted to f32 when delta_x is non-zero and delta_y converted to f32
\* otherwise, whatever the other six coordinates are; the result is 0 when
\* both are zero, 3 for (3, 0) and -2 for (0, -2), and it is the chosen
\* delta itself whenever that delta is below 2^24 in magnitude.
C10_MoveValue ==
  (op = "get_element_value" /\ ev.variant = "MouseMove") =>
    /\ ret = f64_as_f32(ChosenDelta(ev))
    /\ (ev.delta_x = 0 /\ ev.delta_y = 0) => ret = 0
    /\ (ev.delta_x = 3 /\ ev.delta_y = 0) => ret = 3
    /\ (ev.delta_x = 0 /\ ev.delta_y = -2) => ret = -2
    /\ (ChosenDelta(ev) < 16777216 /\ ChosenDelta(ev) > -16777216) =>
         ret = ChosenDelta(ev)

C10_Witness ==
  /\ op = "get_element_value"
  /\ ev.variant = "MouseMove"
  /\ ev.delta_x = 16777217
  /\ ev.delta_y = 5
  /\ ret = 16777216

\* The coordinate of a MouseScroll that get_element_value() reads.
ChosenScroll(e) == IF e.x # 0 THEN e.x ELSE e.y

\* C11 as stated: for every MouseScroll, get_element_value() returns x when
\* x is non-zero and y otherwise.
C11_Original ==
  (op = "get_element_value" /\ ev.variant = "MouseScroll") =>
    ret = ChosenScroll(ev)

\* C11 amended: for every MouseScroll, get_element_value() returns x
\* converted to f32 when x is non-zero and y converted to f32 otherwise; the
\* result is 0 when both are zero, 5 for (0, 5), and it is the chosen
\* coordinate itself whenever that is below 2^24 in magnitude.
C11_ScrollValue ==
  (op = "get_element_value" /\ ev.variant = "MouseScroll") =>
    /\ ret = f64_as_f32(ChosenScroll(ev))
    /\ (ev.x = 0 /\ ev.y = 0) => ret = 0
    /\ (ev.x = 0 /\ ev.y = 5) => ret = 5
    /\ (ev.x # 0 /\ ev.x < 16777216 /\ ev.x > -16777216) => ret = ev.x
    /\ (ChosenScroll(ev) < 16777216 /\ ChosenScroll(ev) > -16777216) =>
         ret = ChosenScroll(ev)

C11_Witness ==
  /\ op = "get_element_value"
  /\ ev.variant = "MouseScroll"
  /\ ev.x = 0
  /\ ev.y = -16777219
  /\ ret = -16777220

\* C12: for every KeyboardEvent e, e.to_keyboard_event() is Some of an
\* event with the variant, timestamp, device, element and key of e, and for
\* every MouseEvent m, m.to_mouse_event() is Some of an event with the
\* variant and all the fields of m; neither is ever None.
C12_IdentityNarrowing ==
  /\ op = "to_keyboard_event" =>
       /\ ret # None
       /\ ret = Some(ev)
       /\ Unwrap(ret).variant = ev.variant
       /\ Unwrap(ret).timestamp = ev.timestamp
       /\ Unwrap(ret).device = ev.device
       /\ Unwrap(ret).element = ev.element
       /\ Unwrap(ret).key = ev.key
  /\ op = "to_mouse_event" =>
       /\ ret # None
       /\ ret = Some(ev)
       /\ DOMAIN Unwrap(ret) = DOMAIN ev
       /\ \A f \in DOMAIN ev : Unwrap(ret)[f] = ev[f]

C12_Witness ==
  /\ op = "to_keyboard_event"
  /\ ev.variant = "KeyRelease"
  /\ ev.key = Some("F1")
  /\ ret = Some(ev)

\* C15: get_timestamp(), get_device_id() and get_element_id() return the
\* timestamp, the device and the element stored in the receiver, for each
\* of the two KeyboardEvent and the four MouseEvent variants.
C15_AccessorDispatch ==
  /\ op = "get_timestamp" => ret = ev.timestamp
  /\ op = "get_device_id" => ret = ev.device
  /\ op = "get_element_id" => ret = ev.element
  /\ op \in {"get_timestamp", "get_device_id", "get_element_id"} =>
       ev.variant \in {"KeyPress", "KeyRelease", "MousePress", "MouseRelease",
                       "MouseMove", "MouseScroll"}

C15_Witness ==
  /\ op = "get_element_id"
  /\ ev.variant = "KeyRelease"
  /\ ev.timestamp = 0
  /\ ev.element = 1
  /\ ret = 1

---------------------------------------------------------------------------
(* #[deriving(PartialEq, Eq, Ord, PartialOrd, Hash)] for Button: the derived *)
(* implementations compare and hash the discriminant, which for an enum     *)
(* without explicit values is the position in the declaration, from 0.      *)

\* Discriminants as if Middle were declared before Right.
Button_discriminant_middle_first(b) ==
  CASE b = "Left" -> 0 [] b = "Middle" -> 1 [] b = "Right" -> 2
    [] b = "X1" -> 3 [] b = "X2" -> 4

Button_discriminant(b) ==
  (CHOOSE i \in DOMAIN ButtonVariants : ButtonVariants[i] = b) - 1

Button_eq(a, b) == Button_discriminant(a) = Button_discriminant(b)

Button_cmp(a, b) ==
  LET x == Button_discriminant(a)
      y == Button_discriminant(b)
  IN  IF x < y THEN "Less" ELSE IF x = y THEN "Equal" ELSE "Greater"

Button_partial_cmp(a, b) == Some(Button_cmp(a, b))

Button_lt(a, b) == Button_partial_cmp(a, b) = Some("Less")

Button_hash(b, state) == Append(state, Button_discriminant(b))

---------------------------------------------------------------------------
(* SpecButton: comparisons and hashes of two buttons *)

InitButton ==
  /\ self \in Button
  /\ other \in Button
  /\ n = Lit(0)
  /\ ev = NoEvent
  /\ op = "init"
  /\ ret = NoRet

\* self == other
CallButtonEq ==
  /\ op' = "eq"
  /\ ret' = Button_eq(self, other)
  /\ UNCHANGED <<n, self, other, ev>>

\* self.cmp(&other)
CallButtonCmp ==
  /\ op' = "cmp"
  /\ ret' = Button_cmp(self, other)
  /\ UNCHANGED <<n, self, other, ev>>

\* self.partial_cmp(&other)
CallButtonPartialCmp ==
  /\ op' = "partial_cmp"
  /\ ret' = Button_partial_cmp(self, other)
  /\ UNCHANGED <<n, self, other, ev>>

\* self < other
CallButtonLt ==
  /\ op' = "lt"
  /\ ret' = Button_lt(self, other)
  /\ UNCHANGED <<n, self, other, ev>>

\* self.hash(&mut s1); other.hash(&mut s2), with s1 and s2 two hashers in
\* the same state
CallButtonHash ==
  /\ op' = "hash"
  /\ ret' = <<Button_hash(self, <<>>), Button_hash(other, <<>>)>>
  /\ UNCHANGED <<n, self, other, ev>>

NextButton ==
  \/ CallButtonEq
  \/ CallButtonCmp
  \/ CallButtonPartialCmp
  \/ CallButtonLt
  \/ CallButtonHash

SpecButton == InitButton /\ [][NextButton]_vars

---------------------------------------------------------------------------
(* Properties of Button, checked under SpecButton *)

\* The pairs a < b of the order Left < Right < Middle < X1 < X2.
DeclaredLess ==
  { <<"Left", "Right">>, <<"Left", "Middle">>, <<"Left", "X1">>, <<"Left", "X2">>,
    <<"Right", "Middle">>, <<"Right", "X1">>, <<"Right", "X2">>,
    <<"Middle", "X1">>, <<"Middle", "X2">>,
    <<"X1", "X2">> }

\* C14: Button has exactly the five values Left, Right, Middle, X1, X2; two
\* buttons are equal iff they are the same variant; of <, == and > exactly
\* one holds for any two buttons; the order is transitive and is the
\* declaration order Left < Right < Middle < X1 < X2; equal buttons hash
\* equal.
C14_ButtonOrder ==
  /\ Button = {"Left", "Right", "Middle", "X1", "X2"}
  /\ Cardinality(Button) = 5
  /\ op = "eq" => (ret <=> (self = other))
  /\ op = "cmp" =>
       /\ ret \in {"Less", "Equal", "Greater"}
       /\ (ret = "Less") <=> (<<self, other>> \in DeclaredLess)
       /\ (ret = "Greater") <=> (<<other, self>> \in DeclaredLess)
       /\ (ret = "Equal") <=> (self = other)
       /\ (ret = "Equal") <=> Button_eq(self, other)
       /\ \A c \in Button :
            (ret = "Less" /\ Button_cmp(other, c) = "Less") =>
              Button_cmp(self, c) = "Less"
  /\ op = "partial_cmp" => ret = Some(Button_cmp(self, other))
  /\ op = "lt" => (ret <=> (<<self, other>> \in DeclaredLess))
  /\ (op = "hash" /\ Button_eq(self, other)) => ret[1] = ret[2]

C14_Witness ==
  /\ op = "cmp"
  /\ self = "Right"
  /\ other = "Middle"
  /\ ret = "Less"

---------------------------------------------------------------------------
(* Properties of the signed conversions, checked under Spec *)

\* Whether the i64 with the bits m is negative.
IsNegative(m) == m[4] >= 32768

\* The Key that the enum declares for the code m, Unknown if none.
KeyOfCode(m) ==
  IF m \in TableCodes
  THEN CHOOSE k \in Key : Lit(KeyDiscriminant[k]) = m
  ELSE "Unknown"

\* C16: for every n >= 0, from_i64(n) and from_int(n) return what from_u64
\* returns for n; for every negative n they return Some(Unknown), n as u64
\* being at least 2^63 and no table code; and from_u64(c + 2^32) is
\* Some(Unknown) for every table code c.
C16_SignedEntryPoints ==
  /\ (op \in {"from_i64", "from_int"} /\ ~IsNegative(n)) =>
       /\ ret = from_u64(n)
       /\ ret = Some(KeyOfCode(n))
  /\ (op \in {"from_i64", "from_int"} /\ IsNegative(n)) =>
       /\ ret = Some("Unknown")
       /\ n \notin TableCodes
  /\ (op = "from_u64" /\ n[3] = 1 /\ n[4] = 0 /\ <<n[1], n[2], 0, 0>> \in TableCodes) =>
       ret = Some("Unknown")

C16_Witness ==
  /\ op = "from_i64"
  /\ n = <<97, 0, 65535, 65535>>
  /\ IsNegative(n)
  /\ ret = Some("Unknown")

\* C17: every Key code lies in 0 .. 2^31-1 and is at most 1073742106, so
\* code() returns the discriminant unchanged, and to_i64, to_u64 and to_int
\* all return Some of that same non-negative value, never None.
C17_CodeRange ==
  /\ \A k \in Key : KeyDiscriminant[k] \in 0 .. BlockLast
  /\ op = "code" =>
       /\ ret \in 0 .. 2147483647
       /\ ret <= 1073742106
       /\ ret = KeyDiscriminant[self]
       /\ self = "Sleep" => ret = 1073742106
  /\ op \in {"to_i64", "to_u64", "to_int"} =>
       /\ ret # None
       /\ ret = Some(Lit(KeyDiscriminant[self]))
       /\ ret = Some(Lit(code(self)))
       /\ ~IsNegative(Unwrap(ret))

C17_Witness ==
  /\ op = "to_int"
  /\ self = "Sleep"
  /\ ret = Some(Lit(1073742106))

---------------------------------------------------------------------------
(* SpecPure: any sequence of the calls that take &self, on an event or on   *)
(* a pair of keys                                                           *)

InitPure == InitEvent \/ InitPair

NextPure ==
  \/ NextEvent
  \/ CallEq
  \/ CallPartialCmp
  \/ CallCmp
  \/ CallHash
  \/ CallCodes
  \/ CallCode
  \/ CallToU64
  \/ CallToI64
  \/ CallToInt

SpecPure == InitPure /\ [][NextPure]_vars

\* C18: no call of get_timestamp, get_device_id, get_element_id,
\* get_element_value, to_keyboard_event or to_mouse_event changes the variant
\* or a field of the event it is called on, no call of code, eq,
\* partial_cmp, cmp, hash, to_i64, to_u64 or to_int changes a Key it is
\* called on, and a call repeated on the same receiver returns the same
\* result.
C18_Pure ==
  [][ /\ ev' = ev
      /\ self' = self
      /\ other' = other
      /\ op' = op => ret' = ret ]_vars

C18_Witness ==
  /\ op = "to_mouse_event"
  /\ ev.variant = "MouseMove"
  /\ ev.delta_x = 3
  /\ ret = Some(ev)

=============================================================================
